---- MODULE Spec2Model ----
(***************************************************************************)
(* The Mastermind zkApp (src/src/Mastermind.ts): the on-chain game state   *)
(* machine with its reward escrow, together with the off-chain step        *)
(* program whose proofs it admits.  utils.ts and stepProgram.ts are not    *)
(* part of the sources at hand; their operators are modelled from the      *)
(* specification (sections 4.1 - 4.3).                                     *)
(*                                                                         *)
(* A method call is one atomic transaction.  Each method has an operator   *)
(* <method>Err giving the message of the first assertion that fails, in    *)
(* the order of the code (OK when none does), and an action that applies   *)
(* the method's effects when <method>Err is OK.  A failed transaction has  *)
(* no effect on the ledger, so it is a stuttering step.                    *)
(***************************************************************************)
EXTENDS Integers, Sequences, FiniteSets, TLC

(***************************************************************************)
(* Bounds of the model.                                                    *)
(***************************************************************************)
MaxSlot == 20
SlotStride == 10
MaxReward == 1
InitialBalance == 2
MaxRounds == 6
MaxPayouts == 2

(***************************************************************************)
(* Program constants.                                                      *)
(***************************************************************************)
GAME_DURATION == 10
MinAttempts == 5
MaxAttempts == 15

(***************************************************************************)
(* Radices of the compressed state fields (spec 4.1).                      *)
(***************************************************************************)
TurnCountRadix == 64
MaxAttemptsRadix == 16
SlotRadix == 65536
DigitRadix == 10
ClueRadix == 4

OK == "ok"

(***************************************************************************)
(* Inputs.                                                                 *)
(***************************************************************************)
Keys == {"codeMaster", "codeBreaker", "referee", "intruder"}
RefereeKeys == {"referee"}
MaxAttemptsInputs == {4, 5, 16}
CombinationInputs == {1234, 2134, 1124}
SecretInputs == {1234, 1124}
StepMasterKeys == {"codeMaster", "intruder"}
StepBreakerKeys == {"codeBreaker", "intruder"}
SaltInputs == {1}
RewardInputs == 0..MaxReward

(***************************************************************************)
(* Poseidon.hash, as an injective map that never yields 0.                 *)
(***************************************************************************)
PubKeyHash(pk) ==
  CASE pk = "codeMaster" -> 101
    [] pk = "codeBreaker" -> 102
    [] pk = "referee" -> 103
    [] pk = "intruder" -> 104

HashSolution(digits, salt) ==
  200000 + ((((digits[1] * DigitRadix + digits[2]) * DigitRadix + digits[3])
              * DigitRadix + digits[4]) * DigitRadix + salt)

(***************************************************************************)
(* Encoding codec (spec 4.1).                                              *)
(***************************************************************************)
compressTurnCountMaxAttemptSolved(digits) ==
  digits[1] + TurnCountRadix * digits[2]
            + TurnCountRadix * MaxAttemptsRadix * digits[3]

separateTurnCountAndMaxAttemptSolved(value) ==
  << value % TurnCountRadix,
     (value \div TurnCountRadix) % MaxAttemptsRadix,
     value \div (TurnCountRadix * MaxAttemptsRadix) >>

compressRewardAndFinalizeSlot(reward, slot) ==
  reward * SlotRadix + slot

separateRewardAndFinalizeSlot(value) ==
  [rewardAmount |-> value \div SlotRadix, finalizeSlot |-> value % SlotRadix]

compressCombinationDigits(digits) ==
  ((digits[1] * DigitRadix + digits[2]) * DigitRadix + digits[3]) * DigitRadix
    + digits[4]

separateCombinationDigits(combination) ==
  << combination \div (DigitRadix * DigitRadix * DigitRadix),
     (combination \div (DigitRadix * DigitRadix)) % DigitRadix,
     (combination \div DigitRadix) % DigitRadix,
     combination % DigitRadix >>

serializeClue(clue) ==
  clue[1] + ClueRadix * (clue[2] + ClueRadix * (clue[3] + ClueRadix * clue[4]))

deserializeClue(serialized) ==
  << serialized % ClueRadix,
     (serialized \div ClueRadix) % ClueRadix,
     (serialized \div (ClueRadix * ClueRadix)) % ClueRadix,
     (serialized \div (ClueRadix * ClueRadix * ClueRadix)) % ClueRadix >>

(***************************************************************************)
(* Combination validator (spec 4, 7): digits non-zero and pairwise         *)
(* different.                                                              *)
(***************************************************************************)
validateCombinationErr(digits) ==
  IF \E i \in 1..4 : digits[i] = 0
    THEN "RangeError: combination digit is zero"
  ELSE IF \E i, j \in 1..4 : i < j /\ digits[i] = digits[j]
    THEN "RangeError: combination digits are not unique"
  ELSE OK

(***************************************************************************)
(* Clue engine (spec 4.2): the exact-position pass, then the multiset      *)
(* pass over the positions that are not hits.  0 = miss, 1 = blow, 2 = hit *)
(***************************************************************************)
RECURSIVE BlowPass(_, _, _, _, _)
BlowPass(i, avail, guess, solution, clue) ==
  IF i > 4 THEN clue
  ELSE IF clue[i] = 2 THEN BlowPass(i + 1, avail, guess, solution, clue)
  ELSE LET match == {j \in avail : solution[j] = guess[i]}
       IN IF match = {} THEN BlowPass(i + 1, avail, guess, solution, clue)
          ELSE LET j == CHOOSE k \in match : \A l \in match : k <= l
               IN BlowPass(i + 1, avail \ {j}, guess, solution,
                           [clue EXCEPT ![i] = 1])

getClueFromGuess(guess, solution) ==
  LET hits == [i \in 1..4 |-> IF guess[i] = solution[i] THEN 2 ELSE 0]
  IN BlowPass(1, {j \in 1..4 : hits[j] # 2}, guess, solution, hits)

checkIfSolved(clue) == \A i \in 1..4 : clue[i] = 2

(***************************************************************************)
(* State.  The eight on-chain fields of MastermindZkApp keep their         *)
(* compressed form; provedState, the balances and the global slot belong   *)
(* to the ledger.  lastCall, payouts, onChainOnly, guessLog and committed  *)
(* are history variables: the method of the last successful call, the      *)
(* number of successful terminal transfers, whether the game was played by *)
(* makeGuess and giveClue alone, the guesses makeGuess accepted in such a  *)
(* game, and the secret and salt createGame was called with.               *)
(***************************************************************************)
VARIABLES provedState, turnCountMaxAttemptsIsSolved, codeMasterId,
          codeBreakerId, refereeId, solutionHash, unseparatedGuess,
          serializedClue, rewardFinalizeSlot, zkappBalance, balance,
          globalSlot, lastCall, payouts, onChainOnly, guessLog, committed

zkappState == << provedState, turnCountMaxAttemptsIsSolved, codeMasterId,
                 codeBreakerId, refereeId, solutionHash, unseparatedGuess,
                 serializedClue, rewardFinalizeSlot >>
ledger == << zkappBalance, balance >>
history == << lastCall, payouts, onChainOnly, guessLog, committed >>
vars == << zkappState, ledger, globalSlot, history >>

turnCount == separateTurnCountAndMaxAttemptSolved(turnCountMaxAttemptsIsSolved)[1]
maxAttempts == separateTurnCountAndMaxAttemptSolved(turnCountMaxAttemptsIsSolved)[2]
isSolved == separateTurnCountAndMaxAttemptSolved(turnCountMaxAttemptsIsSolved)[3]
rewardAmount == separateRewardAndFinalizeSlot(rewardFinalizeSlot).rewardAmount
finalizeSlot == separateRewardAndFinalizeSlot(rewardFinalizeSlot).finalizeSlot

Init ==
  /\ provedState = FALSE
  /\ turnCountMaxAttemptsIsSolved = 0
  /\ codeMasterId = 0
  /\ codeBreakerId = 0
  /\ refereeId = 0
  /\ solutionHash = 0
  /\ unseparatedGuess = 0
  /\ serializedClue = 0
  /\ rewardFinalizeSlot = 0
  /\ zkappBalance = 0
  /\ balance = [k \in Keys |-> InitialBalance]
  /\ globalSlot = 0
  /\ lastCall = "deploy"
  /\ payouts = 0
  /\ onChainOnly = TRUE
  /\ guessLog = << >>
  /\ committed = << >>

(***************************************************************************)
(* Ledger: a signed send fails when the sender cannot cover the amount, a  *)
(* send of the zkApp fails when its balance cannot.                        *)
(***************************************************************************)
InsufficientBalance == "Ledger: insufficient balance"

assertFinalizedErr ==
  IF globalSlot >= finalizeSlot THEN OK
  ELSE "The game has not been finalized yet!"

\* assertNotFinalized comparing with assertLessThanOrEqual.
assertNotFinalizedErr_Inclusive ==
  IF globalSlot <= finalizeSlot THEN OK
  ELSE "The game has already been finalized!"

\* assertNotFinalized that takes an unset finalizeSlot for an open deadline.
assertNotFinalizedErr_UnsetIsOpen ==
  IF finalizeSlot = 0 \/ globalSlot < finalizeSlot THEN OK
  ELSE "The game has already been finalized!"

assertNotFinalizedErr ==
  IF globalSlot < finalizeSlot THEN OK
  ELSE "The game has already been finalized!"

(***************************************************************************)
(* initGame                                                                *)
(***************************************************************************)
\* initGame without the minimum-attempts assertion.
initGameErr_NoMinimum(maxAttemptsArg) ==
  IF provedState THEN "The game has already been initialized!"
  ELSE IF ~(maxAttemptsArg <= MaxAttempts)
    THEN "The maximum number of attempts allowed is 15!"
  ELSE OK

initGameErr(maxAttemptsArg) ==
  IF provedState THEN "The game has already been initialized!"
  ELSE IF ~(maxAttemptsArg >= MinAttempts)
    THEN "The minimum number of attempts allowed is 5!"
  ELSE IF ~(maxAttemptsArg <= MaxAttempts)
    THEN "The maximum number of attempts allowed is 15!"
  ELSE OK

initGame(sender, maxAttemptsArg, refereePubKey) ==
  /\ initGameErr(maxAttemptsArg) = OK
  /\ provedState' = TRUE
  /\ turnCountMaxAttemptsIsSolved' =
       compressTurnCountMaxAttemptSolved(<< 0, maxAttemptsArg, 0 >>)
  /\ refereeId' = PubKeyHash(refereePubKey)
  /\ codeMasterId' = 0
  /\ codeBreakerId' = 0
  /\ solutionHash' = 0
  /\ unseparatedGuess' = 0
  /\ serializedClue' = 0
  /\ rewardFinalizeSlot' = 0
  /\ lastCall' = "initGame"
  /\ UNCHANGED << ledger, globalSlot, payouts, onChainOnly, guessLog, committed >>

(***************************************************************************)
(* createGame                                                              *)
(***************************************************************************)
\* createGame without the isInitialized assertion.
createGameErr_NoInitCheck(sender, unseparatedSecretCombination, salt, rewardArg) ==
  IF turnCount # 0 THEN "A mastermind game is already created!"
  ELSE IF validateCombinationErr(
            separateCombinationDigits(unseparatedSecretCombination)) # OK
    THEN validateCombinationErr(
            separateCombinationDigits(unseparatedSecretCombination))
  ELSE IF balance[sender] < rewardArg THEN InsufficientBalance
  ELSE OK

\* createGame without the turnCount = 0 assertion.
createGameErr_NoCreatedCheck(sender, unseparatedSecretCombination, salt, rewardArg) ==
  IF ~provedState THEN "The game has not been initialized yet!"
  ELSE IF validateCombinationErr(
            separateCombinationDigits(unseparatedSecretCombination)) # OK
    THEN validateCombinationErr(
            separateCombinationDigits(unseparatedSecretCombination))
  ELSE IF balance[sender] < rewardArg THEN InsufficientBalance
  ELSE OK

createGameErr(sender, unseparatedSecretCombination, salt, rewardArg) ==
  IF ~provedState THEN "The game has not been initialized yet!"
  ELSE IF turnCount # 0 THEN "A mastermind game is already created!"
  ELSE IF validateCombinationErr(
            separateCombinationDigits(unseparatedSecretCombination)) # OK
    THEN validateCombinationErr(
            separateCombinationDigits(unseparatedSecretCombination))
  ELSE IF balance[sender] < rewardArg THEN InsufficientBalance
  ELSE OK

createGame(sender, unseparatedSecretCombination, salt, rewardArg) ==
  /\ createGameErr(sender, unseparatedSecretCombination, salt, rewardArg) = OK
  /\ solutionHash' =
       HashSolution(separateCombinationDigits(unseparatedSecretCombination), salt)
  /\ codeMasterId' = PubKeyHash(sender)
  /\ turnCountMaxAttemptsIsSolved' =
       compressTurnCountMaxAttemptSolved(<< turnCount + 1, maxAttempts, isSolved >>)
  /\ balance' = [balance EXCEPT ![sender] = @ - rewardArg]
  /\ zkappBalance' = zkappBalance + rewardArg
  /\ rewardFinalizeSlot' = compressRewardAndFinalizeSlot(rewardArg, 0)
  /\ lastCall' = "createGame"
  /\ UNCHANGED << provedState, codeBreakerId, refereeId, unseparatedGuess,
                  serializedClue, globalSlot, payouts, onChainOnly,
                  guessLog >>
  /\ committed' = << unseparatedSecretCombination, salt >>

(***************************************************************************)
(* acceptGame                                                              *)
(***************************************************************************)
\* acceptGame without the codeBreakerId = 0 assertion.
acceptGameErr_NoAcceptedCheck(sender) ==
  IF ~provedState THEN "The game has not been initialized yet!"
  ELSE IF turnCount # 1 THEN "The game has not been created yet!"
  ELSE IF balance[sender] < rewardAmount THEN InsufficientBalance
  ELSE OK

acceptGameErr(sender) ==
  IF ~provedState THEN "The game has not been initialized yet!"
  ELSE IF codeBreakerId # 0
    THEN "The game has already been accepted by the codeBreaker!"
  ELSE IF turnCount # 1 THEN "The game has not been created yet!"
  ELSE IF balance[sender] < rewardAmount THEN InsufficientBalance
  ELSE OK

\* acceptGame storing the single stake instead of the doubled pool.
acceptGame_StoresSingleStake(sender) ==
  /\ acceptGameErr(sender) = OK
  /\ balance' = [balance EXCEPT ![sender] = @ - rewardAmount]
  /\ zkappBalance' = zkappBalance + rewardAmount
  /\ codeBreakerId' = PubKeyHash(sender)
  /\ rewardFinalizeSlot' =
       compressRewardAndFinalizeSlot(rewardAmount, globalSlot + GAME_DURATION)
  /\ lastCall' = "acceptGame"
  /\ UNCHANGED << provedState, turnCountMaxAttemptsIsSolved, codeMasterId,
                  refereeId, solutionHash, unseparatedGuess, serializedClue,
                  globalSlot, payouts, onChainOnly, guessLog, committed >>

\* acceptGame setting the deadline to GAME_DURATION, not currentSlot + GAME_DURATION.
acceptGame_DeadlineFromGenesis(sender) ==
  /\ acceptGameErr(sender) = OK
  /\ balance' = [balance EXCEPT ![sender] = @ - rewardAmount]
  /\ zkappBalance' = zkappBalance + rewardAmount
  /\ codeBreakerId' = PubKeyHash(sender)
  /\ rewardFinalizeSlot' =
       compressRewardAndFinalizeSlot(rewardAmount * 2, GAME_DURATION)
  /\ lastCall' = "acceptGame"
  /\ UNCHANGED << provedState, turnCountMaxAttemptsIsSolved, codeMasterId,
                  refereeId, solutionHash, unseparatedGuess, serializedClue,
                  globalSlot, payouts, onChainOnly, guessLog, committed >>

acceptGame(sender) ==
  /\ acceptGameErr(sender) = OK
  /\ balance' = [balance EXCEPT ![sender] = @ - rewardAmount]
  /\ zkappBalance' = zkappBalance + rewardAmount
  /\ codeBreakerId' = PubKeyHash(sender)
  /\ rewardFinalizeSlot' =
       compressRewardAndFinalizeSlot(rewardAmount * 2, globalSlot + GAME_DURATION)
  /\ lastCall' = "acceptGame"
  /\ UNCHANGED << provedState, turnCountMaxAttemptsIsSolved, codeMasterId,
                  refereeId, solutionHash, unseparatedGuess, serializedClue,
                  globalSlot, payouts, onChainOnly, guessLog, committed >>

(***************************************************************************)
(* The step program (spec 4.3).  Its three methods are functions from the  *)
(* public output of the proof before them to the next public output        *)
(* (NoProof when an assertion fails: no proof is produced).  A proof the   *)
(* contract is given is the output of a chain createGame, (makeGuess,      *)
(* giveClue)*, possibly ending in a makeGuess.                             *)
(***************************************************************************)
NoProof ==
  [codeMasterId |-> 0, codeBreakerId |-> 0, solutionHash |-> 0,
   lastGuess |-> 0, serializedClue |-> 0, turnCount |-> 0]

stepCreateGame(secretCombination, salt, codeMasterKey) ==
  IF validateCombinationErr(separateCombinationDigits(secretCombination)) # OK
    THEN NoProof
  ELSE [codeMasterId |-> PubKeyHash(codeMasterKey),
        codeBreakerId |-> 0,
        solutionHash |->
          HashSolution(separateCombinationDigits(secretCombination), salt),
        lastGuess |-> 0,
        serializedClue |-> 0,
        turnCount |-> 1]

stepMakeGuess(prior, guess, codeBreakerKey) ==
  IF \/ prior.turnCount = 0
     \/ prior.turnCount % 2 = 0
     \/ checkIfSolved(deserializeClue(prior.serializedClue))
     \/ prior.turnCount # 1 /\ prior.codeBreakerId # PubKeyHash(codeBreakerKey)
     \/ validateCombinationErr(separateCombinationDigits(guess)) # OK
    THEN NoProof
  ELSE [prior EXCEPT !.codeBreakerId = PubKeyHash(codeBreakerKey),
                     !.lastGuess = guess,
                     !.turnCount = @ + 1]

stepGiveClue(prior, secretCombination, salt, codeMasterKey) ==
  IF \/ prior.turnCount = 0
     \/ prior.codeMasterId # PubKeyHash(codeMasterKey)
     \/ prior.solutionHash #
          HashSolution(separateCombinationDigits(secretCombination), salt)
     \/ ~(prior.turnCount % 2 = 0 /\ prior.turnCount # 0)
    THEN NoProof
  ELSE [prior EXCEPT
          !.serializedClue =
             serializeClue(getClueFromGuess(
               separateCombinationDigits(prior.lastGuess),
               separateCombinationDigits(secretCombination))),
          !.turnCount = @ + 1]

\* The proof after the rounds (guess, clue) of guesses, all by one codeBreaker.
RECURSIVE StepRounds(_, _, _, _, _, _)
StepRounds(prior, guesses, secretCombination, salt, codeMasterKey, codeBreakerKey) ==
  IF guesses = << >> THEN prior
  ELSE StepRounds(
         stepGiveClue(stepMakeGuess(prior, Head(guesses), codeBreakerKey),
                      secretCombination, salt, codeMasterKey),
         Tail(guesses), secretCombination, salt, codeMasterKey, codeBreakerKey)

StepProofOf(guesses, secretCombination, salt, codeMasterKey, codeBreakerKey) ==
  StepRounds(stepCreateGame(secretCombination, salt, codeMasterKey), guesses,
             secretCombination, salt, codeMasterKey, codeBreakerKey)

\* Every proof of at most n rounds: the roots closed under the steps.
ProofsWithin[n \in 0..MaxRounds] ==
  IF n = 0
    THEN {stepCreateGame(c, salt, mk) :
            c \in CombinationInputs, salt \in SaltInputs,
            mk \in StepMasterKeys} \ {NoProof}
  ELSE LET prev == ProofsWithin[n - 1]
           guessed == {stepMakeGuess(p, g, bk) :
                         p \in prev, g \in CombinationInputs,
                         bk \in StepBreakerKeys}
           clued == {stepGiveClue(p, c, salt, mk) :
                       p \in guessed, c \in CombinationInputs,
                       salt \in SaltInputs, mk \in StepMasterKeys}
       IN {p \in prev \cup guessed \cup clued : p # NoProof}

ProofInputs == ProofsWithin[MaxRounds]

(***************************************************************************)
(* submitGameProof.  proof.verify() accepts exactly the outputs of the     *)
(* step program (ProofInputs); NoProof stands for anything else.           *)
(***************************************************************************)
\* submitGameProof without the solutionHash assertion.
submitGameProofErr_NoHashCheck(proof) ==
  IF ~provedState THEN "The game has not been initialized yet!"
  ELSE IF codeBreakerId = 0
    THEN "The game has not been accepted by the codeBreaker yet!"
  ELSE IF assertNotFinalizedErr # OK THEN assertNotFinalizedErr
  ELSE IF isSolved # 0 THEN "The game secret has already been solved!"
  ELSE IF proof = NoProof THEN "ProofVerificationError"
  ELSE IF proof.codeBreakerId # codeBreakerId
    THEN "The code breaker ID is not same as the one stored on-chain!"
  ELSE IF proof.codeMasterId # codeMasterId
    THEN "The code master ID is not same as the one stored on-chain!"
  ELSE IF ~(proof.turnCount > turnCount)
    THEN "Cannot submit a proof for a previous turn!"
  ELSE OK

\* submitGameProof without the turnCount assertion.
submitGameProofErr_NoTurnCheck(proof) ==
  IF ~provedState THEN "The game has not been initialized yet!"
  ELSE IF codeBreakerId = 0
    THEN "The game has not been accepted by the codeBreaker yet!"
  ELSE IF assertNotFinalizedErr # OK THEN assertNotFinalizedErr
  ELSE IF isSolved # 0 THEN "The game secret has already been solved!"
  ELSE IF proof = NoProof THEN "ProofVerificationError"
  ELSE IF proof.codeBreakerId # codeBreakerId
    THEN "The code breaker ID is not same as the one stored on-chain!"
  ELSE IF proof.codeMasterId # codeMasterId
    THEN "The code master ID is not same as the one stored on-chain!"
  ELSE IF proof.solutionHash # solutionHash
    THEN "The solution hash is not same as the one stored on-chain!"
  ELSE OK

submitGameProofErr(proof) ==
  IF ~provedState THEN "The game has not been initialized yet!"
  ELSE IF codeBreakerId = 0
    THEN "The game has not been accepted by the codeBreaker yet!"
  ELSE IF assertNotFinalizedErr # OK THEN assertNotFinalizedErr
  ELSE IF isSolved # 0 THEN "The game secret has already been solved!"
  ELSE IF proof = NoProof THEN "ProofVerificationError"
  ELSE IF proof.codeBreakerId # codeBreakerId
    THEN "The code breaker ID is not same as the one stored on-chain!"
  ELSE IF proof.codeMasterId # codeMasterId
    THEN "The code master ID is not same as the one stored on-chain!"
  ELSE IF proof.solutionHash # solutionHash
    THEN "The solution hash is not same as the one stored on-chain!"
  ELSE IF ~(proof.turnCount > turnCount)
    THEN "Cannot submit a proof for a previous turn!"
  ELSE OK

\* submitGameProof computing isSolved from the clue alone.
submittedTurnState_NoAttemptBound(proof, maxAttemptsArg) ==
  LET solved == checkIfSolved(deserializeClue(proof.serializedClue))
  IN compressTurnCountMaxAttemptSolved(
       << proof.turnCount, maxAttemptsArg, IF solved THEN 1 ELSE 0 >>)

\* The turn state submitGameProof stores for a proof (lines 309-327).
submittedTurnState(proof, maxAttemptsArg) ==
  LET maxAttemptsExceeded == proof.turnCount >= maxAttemptsArg * 2
      solved == checkIfSolved(deserializeClue(proof.serializedClue))
                  /\ ~maxAttemptsExceeded
  IN compressTurnCountMaxAttemptSolved(
       << proof.turnCount, maxAttemptsArg, IF solved THEN 1 ELSE 0 >>)

\* submitGameProof that only the stored codeBreaker may send.
submitGameProof_OnlyCodeBreaker(sender, proof) ==
  /\ submitGameProofErr(proof) = OK
  /\ codeBreakerId = PubKeyHash(sender)
  /\ codeBreakerId' = proof.codeBreakerId
  /\ unseparatedGuess' = proof.lastGuess
  /\ serializedClue' = proof.serializedClue
  /\ turnCountMaxAttemptsIsSolved' = submittedTurnState(proof, maxAttempts)
  /\ lastCall' = "submitGameProof"
  /\ onChainOnly' = FALSE
  /\ guessLog' = << >>
  /\ UNCHANGED << provedState, codeMasterId, refereeId, solutionHash,
                  rewardFinalizeSlot, ledger, globalSlot, payouts, committed >>

submitGameProof(sender, proof) ==
  /\ submitGameProofErr(proof) = OK
  /\ codeBreakerId' = proof.codeBreakerId
  /\ unseparatedGuess' = proof.lastGuess
  /\ serializedClue' = proof.serializedClue
  /\ turnCountMaxAttemptsIsSolved' = submittedTurnState(proof, maxAttempts)
  /\ lastCall' = "submitGameProof"
  /\ onChainOnly' = FALSE
  /\ guessLog' = << >>
  /\ UNCHANGED << provedState, codeMasterId, refereeId, solutionHash,
                  rewardFinalizeSlot, ledger, globalSlot, payouts, committed >>

(***************************************************************************)
(* claimReward                                                             *)
(***************************************************************************)
\* claimReward without the isWinner assertion.
claimRewardErr_NoWinnerCheck(sender) ==
  IF assertFinalizedErr # OK THEN assertFinalizedErr
  ELSE IF ~(codeMasterId = PubKeyHash(sender) \/ codeBreakerId = PubKeyHash(sender))
    THEN "You are not the codeMaster or codeBreaker of this game!"
  ELSE IF zkappBalance < rewardAmount THEN InsufficientBalance
  ELSE OK

\* claimReward with the isSolved flag of the winner test inverted.
claimRewardErr_WinnerInverted(sender) ==
  LET isCodeMaster == codeMasterId = PubKeyHash(sender)
      isCodeBreaker == codeBreakerId = PubKeyHash(sender)
      isWinner == \/ isCodeMaster /\ isSolved = 1
                  \/ isCodeBreaker /\ isSolved = 0
  IN IF assertFinalizedErr # OK THEN assertFinalizedErr
     ELSE IF ~(isCodeMaster \/ isCodeBreaker)
       THEN "You are not the codeMaster or codeBreaker of this game!"
     ELSE IF ~isWinner THEN "You are not the winner of this game!"
     ELSE IF zkappBalance < rewardAmount THEN InsufficientBalance
     ELSE OK

claimRewardErr(sender) ==
  LET isCodeMaster == codeMasterId = PubKeyHash(sender)
      isCodeBreaker == codeBreakerId = PubKeyHash(sender)
      isWinner == \/ isCodeMaster /\ isSolved = 0
                  \/ isCodeBreaker /\ isSolved = 1
  IN IF assertFinalizedErr # OK THEN assertFinalizedErr
     ELSE IF ~(isCodeMaster \/ isCodeBreaker)
       THEN "You are not the codeMaster or codeBreaker of this game!"
     ELSE IF ~isWinner THEN "You are not the winner of this game!"
     ELSE IF zkappBalance < rewardAmount THEN InsufficientBalance
     ELSE OK

\* this.send({ to, amount }): the transfer out of the zkApp account.
send(to, amount) ==
  /\ zkappBalance' = zkappBalance - amount
  /\ balance' = [balance EXCEPT ![to] = @ + amount]
  /\ payouts' = IF payouts < MaxPayouts THEN payouts + 1 ELSE payouts

claimReward(sender) ==
  /\ claimRewardErr(sender) = OK
  /\ send(sender, rewardAmount)
  /\ lastCall' = "claimReward"
  /\ UNCHANGED << zkappState, globalSlot, onChainOnly, guessLog, committed >>

(***************************************************************************)
(* penalizeCodeBreaker, penalizeCodeMaster                                 *)
(***************************************************************************)
\* penalizeCodeBreaker calling assertFinalized first.
penalizeCodeBreakerErr_ChecksDeadline(sender, codeMasterPubKey) ==
  IF ~provedState THEN "The game has not been initialized yet!"
  ELSE IF assertFinalizedErr # OK THEN assertFinalizedErr
  ELSE IF refereeId # PubKeyHash(sender)
    THEN "You are not the referee of this game!"
  ELSE IF codeMasterId # PubKeyHash(codeMasterPubKey)
    THEN "The code master ID is not same as the one stored on-chain!"
  ELSE IF zkappBalance < rewardAmount THEN InsufficientBalance
  ELSE OK

penalizeCodeBreakerErr(sender, codeMasterPubKey) ==
  IF ~provedState THEN "The game has not been initialized yet!"
  ELSE IF refereeId # PubKeyHash(sender)
    THEN "You are not the referee of this game!"
  ELSE IF codeMasterId # PubKeyHash(codeMasterPubKey)
    THEN "The code master ID is not same as the one stored on-chain!"
  ELSE IF zkappBalance < rewardAmount THEN InsufficientBalance
  ELSE OK

penalizeCodeBreaker(sender, codeMasterPubKey) ==
  /\ penalizeCodeBreakerErr(sender, codeMasterPubKey) = OK
  /\ send(codeMasterPubKey, rewardAmount)
  /\ lastCall' = "penalizeCodeBreaker"
  /\ UNCHANGED << zkappState, globalSlot, onChainOnly, guessLog, committed >>

\* penalizeCodeMaster without the referee assertion.
penalizeCodeMasterErr_NoRefereeCheck(sender, codeBreakerPubKey) ==
  IF ~provedState THEN "The game has not been initialized yet!"
  ELSE IF codeBreakerId # PubKeyHash(codeBreakerPubKey)
    THEN "The code breaker ID is not same as the one stored on-chain!"
  ELSE IF zkappBalance < rewardAmount THEN InsufficientBalance
  ELSE OK

penalizeCodeMasterErr(sender, codeBreakerPubKey) ==
  IF ~provedState THEN "The game has not been initialized yet!"
  ELSE IF refereeId # PubKeyHash(sender)
    THEN "You are not the referee of this game!"
  ELSE IF codeBreakerId # PubKeyHash(codeBreakerPubKey)
    THEN "The code breaker ID is not same as the one stored on-chain!"
  ELSE IF zkappBalance < rewardAmount THEN InsufficientBalance
  ELSE OK

penalizeCodeMaster(sender, codeBreakerPubKey) ==
  /\ penalizeCodeMasterErr(sender, codeBreakerPubKey) = OK
  /\ send(codeBreakerPubKey, rewardAmount)
  /\ lastCall' = "penalizeCodeMaster"
  /\ UNCHANGED << zkappState, globalSlot, onChainOnly, guessLog, committed >>

(***************************************************************************)
(* makeGuess.  setCodeBreakerId() is an argument of Provable.if, so it is  *)
(* evaluated on every call: the method always writes the caller's id to    *)
(* codeBreakerId, and compares the caller's id with the stored one only    *)
(* when turnCount is not 1.                                                *)
(***************************************************************************)
\* makeGuess without the isCodebreakerTurn assertion.
makeGuessErr_NoTurnCheck(sender, unseparatedGuessArg) ==
  IF ~provedState THEN "The game has not been initialized yet!"
  ELSE IF assertNotFinalizedErr # OK THEN assertNotFinalizedErr
  ELSE IF isSolved # 0 THEN "The game secret has already been solved!"
  ELSE IF ~(turnCount < maxAttempts * 2)
    THEN "You have reached the number limit of attempts to solve the secret combination!"
  ELSE IF turnCount # 1 /\ PubKeyHash(sender) # codeBreakerId
    THEN "You are not the codeBreaker of this game!"
  ELSE validateCombinationErr(separateCombinationDigits(unseparatedGuessArg))

\* makeGuess without the attempt-limit assertion.
makeGuessErr_NoAttemptLimit(sender, unseparatedGuessArg) ==
  IF ~provedState THEN "The game has not been initialized yet!"
  ELSE IF assertNotFinalizedErr # OK THEN assertNotFinalizedErr
  ELSE IF isSolved # 0 THEN "The game secret has already been solved!"
  ELSE IF turnCount % 2 = 0
    THEN "Please wait for the codeMaster to give you a clue!"
  ELSE IF turnCount # 1 /\ PubKeyHash(sender) # codeBreakerId
    THEN "You are not the codeBreaker of this game!"
  ELSE validateCombinationErr(separateCombinationDigits(unseparatedGuessArg))

\* makeGuess without the isSolved assertion.
makeGuessErr_NoSolvedCheck(sender, unseparatedGuessArg) ==
  IF ~provedState THEN "The game has not been initialized yet!"
  ELSE IF assertNotFinalizedErr # OK THEN assertNotFinalizedErr
  ELSE IF turnCount % 2 = 0
    THEN "Please wait for the codeMaster to give you a clue!"
  ELSE IF ~(turnCount < maxAttempts * 2)
    THEN "You have reached the number limit of attempts to solve the secret combination!"
  ELSE IF turnCount # 1 /\ PubKeyHash(sender) # codeBreakerId
    THEN "You are not the codeBreaker of this game!"
  ELSE validateCombinationErr(separateCombinationDigits(unseparatedGuessArg))

makeGuessErr(sender, unseparatedGuessArg) ==
  LET computedCodebreakerId == PubKeyHash(sender)
      isFirstGuess == turnCount = 1
      expectedId == IF isFirstGuess THEN computedCodebreakerId
                    ELSE codeBreakerId
  IN IF ~provedState THEN "The game has not been initialized yet!"
     ELSE IF assertNotFinalizedErr # OK THEN assertNotFinalizedErr
     ELSE IF isSolved # 0 THEN "The game secret has already been solved!"
     ELSE IF turnCount % 2 = 0
       THEN "Please wait for the codeMaster to give you a clue!"
     ELSE IF ~(turnCount < maxAttempts * 2)
       THEN "You have reached the number limit of attempts to solve the secret combination!"
     ELSE IF computedCodebreakerId # expectedId
       THEN "You are not the codeBreaker of this game!"
     ELSE validateCombinationErr(separateCombinationDigits(unseparatedGuessArg))

makeGuess(sender, unseparatedGuessArg) ==
  /\ makeGuessErr(sender, unseparatedGuessArg) = OK
  /\ codeBreakerId' = PubKeyHash(sender)
  /\ unseparatedGuess' = unseparatedGuessArg
  /\ turnCountMaxAttemptsIsSolved' =
       compressTurnCountMaxAttemptSolved(<< turnCount + 1, maxAttempts, isSolved >>)
  /\ lastCall' = "makeGuess"
  /\ guessLog' = IF onChainOnly THEN Append(guessLog, unseparatedGuessArg)
                 ELSE guessLog
  /\ UNCHANGED << provedState, codeMasterId, refereeId, solutionHash,
                  serializedClue, rewardFinalizeSlot, ledger, globalSlot,
                  payouts, onChainOnly, committed >>

(***************************************************************************)
(* giveClue                                                                *)
(***************************************************************************)
\* giveClue without the solutionHash assertion.
giveClueErr_NoHashCheck(sender, unseparatedSecretCombination, salt) ==
  IF ~provedState THEN "The game has not been initialized yet!"
  ELSE IF assertNotFinalizedErr # OK THEN assertNotFinalizedErr
  ELSE IF codeMasterId # PubKeyHash(sender)
    THEN "Only the codeMaster of this game is allowed to give clue!"
  ELSE IF ~(turnCount <= maxAttempts * 2)
    THEN "The codeBreaker has finished the number of attempts without solving the secret combination!"
  ELSE IF isSolved # 0
    THEN "The codeBreaker has already solved the secret combination!"
  ELSE IF ~(turnCount % 2 = 0 /\ turnCount # 0)
    THEN "Please wait for the codeBreaker to make a guess!"
  ELSE OK

giveClueErr(sender, unseparatedSecretCombination, salt) ==
  IF ~provedState THEN "The game has not been initialized yet!"
  ELSE IF assertNotFinalizedErr # OK THEN assertNotFinalizedErr
  ELSE IF codeMasterId # PubKeyHash(sender)
    THEN "Only the codeMaster of this game is allowed to give clue!"
  ELSE IF ~(turnCount <= maxAttempts * 2)
    THEN "The codeBreaker has finished the number of attempts without solving the secret combination!"
  ELSE IF isSolved # 0
    THEN "The codeBreaker has already solved the secret combination!"
  ELSE IF ~(turnCount % 2 = 0 /\ turnCount # 0)
    THEN "Please wait for the codeBreaker to make a guess!"
  ELSE IF solutionHash #
            HashSolution(separateCombinationDigits(unseparatedSecretCombination), salt)
    THEN "The secret combination is not compliant with the stored hash on-chain!"
  ELSE OK

\* giveClue storing turnCount instead of turnCount.add(1).
giveClue_KeepsTurnCount(sender, unseparatedSecretCombination, salt) ==
  LET clue == getClueFromGuess(separateCombinationDigits(unseparatedGuess),
                               separateCombinationDigits(unseparatedSecretCombination))
  IN /\ giveClueErr(sender, unseparatedSecretCombination, salt) = OK
     /\ serializedClue' = serializeClue(clue)
     /\ turnCountMaxAttemptsIsSolved' =
          compressTurnCountMaxAttemptSolved(
            << turnCount, maxAttempts, IF checkIfSolved(clue) THEN 1 ELSE 0 >>)
     /\ lastCall' = "giveClue"
     /\ UNCHANGED << provedState, codeMasterId, codeBreakerId, refereeId,
                     solutionHash, unseparatedGuess, rewardFinalizeSlot, ledger,
                     globalSlot, payouts, onChainOnly, guessLog, committed >>

giveClue(sender, unseparatedSecretCombination, salt) ==
  LET solution == separateCombinationDigits(unseparatedSecretCombination)
      guessDigits == separateCombinationDigits(unseparatedGuess)
      clue == getClueFromGuess(guessDigits, solution)
      isSolvedThisTurn == IF checkIfSolved(clue) THEN 1 ELSE 0
  IN /\ giveClueErr(sender, unseparatedSecretCombination, salt) = OK
     /\ serializedClue' = serializeClue(clue)
     /\ turnCountMaxAttemptsIsSolved' =
          compressTurnCountMaxAttemptSolved(
            << turnCount + 1, maxAttempts, isSolvedThisTurn >>)
     /\ lastCall' = "giveClue"
     /\ UNCHANGED << provedState, codeMasterId, codeBreakerId, refereeId,
                     solutionHash, unseparatedGuess, rewardFinalizeSlot, ledger,
                     globalSlot, payouts, onChainOnly, guessLog, committed >>

(***************************************************************************)
(* The network's slot counter moves on its own.                            *)
(***************************************************************************)
incrementGlobalSlot ==
  /\ globalSlot + SlotStride <= MaxSlot
  /\ globalSlot' = globalSlot + SlotStride
  /\ UNCHANGED << zkappState, ledger, history >>

InitGame ==
  \E sender \in Keys, m \in MaxAttemptsInputs, r \in RefereeKeys :
    initGame(sender, m, r)
CreateGame ==
  \E sender \in Keys, c \in SecretInputs, salt \in SaltInputs,
     r \in RewardInputs : createGame(sender, c, salt, r)
AcceptGame == \E sender \in Keys : acceptGame(sender)
\* The proofs whose ids and solution hash are the given ones: submitGameProof
\* rejects every other proof, whatever the rest of the state.
ProofInputsOf ==
  [cm \in {p.codeMasterId : p \in ProofInputs},
   cb \in {0} \cup {PubKeyHash(k) : k \in Keys},
   sh \in {0} \cup {p.solutionHash : p \in ProofInputs} |->
     {p \in ProofInputs : /\ p.codeMasterId = cm
                          /\ p.codeBreakerId = cb
                          /\ p.solutionHash = sh}]
\* The checks before proof.verify() do not read the proof, and no check reads
\* the sender: the first two conjuncts only spare enumerating the inputs.
SubmitGameProof ==
  /\ submitGameProofErr(NoProof) = "ProofVerificationError"
  /\ <<codeMasterId, codeBreakerId, solutionHash>> \in DOMAIN ProofInputsOf
  /\ \E proof \in ProofInputsOf[codeMasterId, codeBreakerId, solutionHash] :
       /\ submitGameProofErr(proof) = OK
       /\ \E sender \in Keys : submitGameProof(sender, proof)
ClaimReward == \E sender \in Keys : claimReward(sender)
PenalizeCodeBreaker == \E sender, pk \in Keys : penalizeCodeBreaker(sender, pk)
PenalizeCodeMaster == \E sender, pk \in Keys : penalizeCodeMaster(sender, pk)
MakeGuess == \E sender \in Keys, g \in CombinationInputs : makeGuess(sender, g)
GiveClue ==
  \E sender \in Keys, c \in CombinationInputs, salt \in SaltInputs :
    giveClue(sender, c, salt)

Next ==
  \/ InitGame
  \/ CreateGame
  \/ AcceptGame
  \/ SubmitGameProof
  \/ ClaimReward
  \/ PenalizeCodeBreaker
  \/ PenalizeCodeMaster
  \/ MakeGuess
  \/ GiveClue
  \/ incrementGlobalSlot

Spec == Init /\ [][Next]_vars

\* The transaction of the winner's claim is not postponed forever.
FairSpec == Spec /\ WF_vars(ClaimReward)

(***************************************************************************)
(* Helpers of the properties.                                              *)
(***************************************************************************)
KeyOf(id) == CHOOSE k \in Keys : PubKeyHash(k) = id
IsCodeMaster(sender) == codeMasterId = PubKeyHash(sender)
IsCodeBreaker(sender) == codeBreakerId = PubKeyHash(sender)
\* The step is an accepted call of the method: each method records its name
\* in lastCall when it is accepted, and the one step that leaves lastCall
\* alone, the slot clock, moves globalSlot, which no method does.
Accepted(method) == lastCall' = method /\ globalSlot' = globalSlot

(***************************************************************************)
(* C1: codeBreakerId is set exactly once: once it is non-zero no later     *)
(* call changes it.  Stated as claimed; makeGuess at turnCount = 1 by      *)
(* another sender overwrites it.                                           *)
(***************************************************************************)
C1_CodeBreakerIdSetOnce ==
  [][codeBreakerId # 0 => codeBreakerId' = codeBreakerId]_vars

(***************************************************************************)
(* C2: escrow conservation: the zkApp's balance is the stored reward       *)
(* amount (0 before createGame, the stake after it, twice the stake after  *)
(* acceptGame) until a payout, and 0 after a payout.  Stated as claimed; a *)
(* payout made before acceptGame is followed by the codeBreaker's deposit. *)
(***************************************************************************)
C2_EscrowConservation ==
  zkappBalance = IF payouts = 0 THEN rewardAmount ELSE 0

(***************************************************************************)
(* C3 as claimed: at most one of claimReward, penalizeCodeBreaker and      *)
(* penalizeCodeMaster ever succeeds.                                       *)
(***************************************************************************)
C3_AtMostOnePayout == payouts <= 1

(***************************************************************************)
(* C3, amended: in a game with a positive reward at most one of            *)
(* claimReward, penalizeCodeBreaker and penalizeCodeMaster ever succeeds,  *)
(* and after that payout every claim and every penalty fails.              *)
(***************************************************************************)
C3_AtMostOnePayoutOfPositiveReward ==
  rewardAmount > 0 =>
    /\ payouts <= 1
    /\ payouts = 1 =>
         \A sender, pk \in Keys :
           /\ claimRewardErr(sender) # OK
           /\ penalizeCodeBreakerErr(sender, pk) # OK
           /\ penalizeCodeMasterErr(sender, pk) # OK

\* After a payout of a positive pool, the winner's claim fails at the ledger.
C3_Witness ==
  /\ payouts = 1
  /\ rewardAmount > 0
  /\ codeBreakerId # 0
  /\ \E sender \in Keys : claimRewardErr(sender) = InsufficientBalance

(***************************************************************************)
(* C4: claimReward succeeds only for the codeMaster of an unsolved game or *)
(* the codeBreaker of a solved one, and then moves the whole stored pool   *)
(* to the caller and leaves the zkApp with balance 0; once the finalize    *)
(* check has passed, a caller who is neither player fails with 'You are    *)
(* not the codeMaster or codeBreaker of this game!' and a player who lost  *)
(* with 'You are not the winner of this game!'.                            *)
(***************************************************************************)
C4_ClaimPaysOnlyTheWinner ==
  /\ [](\A sender \in Keys :
          LET isWinner == \/ IsCodeMaster(sender) /\ isSolved = 0
                          \/ IsCodeBreaker(sender) /\ isSolved = 1
          IN /\ claimRewardErr(sender) = OK => isWinner
             /\ assertFinalizedErr = OK /\ ~IsCodeMaster(sender)
                  /\ ~IsCodeBreaker(sender)
                  => claimRewardErr(sender) =
                       "You are not the codeMaster or codeBreaker of this game!"
             /\ assertFinalizedErr = OK /\ ~isWinner
                  /\ (IsCodeMaster(sender) \/ IsCodeBreaker(sender))
                  => claimRewardErr(sender) =
                       "You are not the winner of this game!")
  /\ [][\A sender \in Keys :
          claimReward(sender) =>
            /\ zkappBalance' = 0
            /\ balance' = [balance EXCEPT ![sender] = @ + rewardAmount]]_vars

\* The codeBreaker of a solved game has claimed a positive pool.
C4_Witness ==
  /\ lastCall = "claimReward"
  /\ isSolved = 1
  /\ rewardAmount > 0
  /\ zkappBalance = 0
  /\ \E sender \in Keys :
       IsCodeBreaker(sender) /\ balance[sender] = InitialBalance + rewardAmount \div 2

(***************************************************************************)
(* C5: no claimReward succeeds while finalizeSlot is unset (0) or the      *)
(* current slot is below it.  Stated as claimed; assertFinalized compares  *)
(* the slot with an unset finalizeSlot of 0 and passes.                    *)
(***************************************************************************)
C5_NoClaimBeforeFinalized ==
  [][\A sender \in Keys :
       claimReward(sender) => finalizeSlot # 0 /\ globalSlot >= finalizeSlot]_vars

(***************************************************************************)
(* C6: isSolved changes from 0 to 1 only when giveClue or submitGameProof  *)
(* accepts a clue of four hits, and only while the turn count is below     *)
(* 2 * maxAttempts.  Stated as claimed; giveClue sets it at turn count     *)
(* 2 * maxAttempts.                                                        *)
(***************************************************************************)
C6_SolvedOnlyBelowAttemptLimit ==
  [][isSolved = 0 /\ isSolved' = 1 =>
       /\ GiveClue \/ SubmitGameProof
       /\ checkIfSolved(deserializeClue(serializedClue'))
       /\ turnCount < 2 * maxAttempts]_vars

(***************************************************************************)
(* C7: a game of k rounds played by makeGuess and giveClue leaves the      *)
(* contract with the turnCount, lastGuess, clue and isSolved that          *)
(* submitGameProof stores for the step proof of the same k rounds.  Stated *)
(* as claimed; the two differ when the last allowed guess is right.        *)
(***************************************************************************)
C7_OnChainPathEqualsProofPath ==
  LET k == Len(guessLog)
      proof == StepProofOf(guessLog, committed[1], committed[2],
                           KeyOf(codeMasterId), KeyOf(codeBreakerId))
  IN onChainOnly /\ 1 <= k /\ k <= maxAttempts /\ turnCount = 2 * k + 1
       /\ proof # NoProof
     => /\ turnCountMaxAttemptsIsSolved = submittedTurnState(proof, maxAttempts)
        /\ unseparatedGuess = proof.lastGuess
        /\ serializedClue = proof.serializedClue

(***************************************************************************)
(* C8: a makeGuess by a sender who is not the bound codeBreaker, a         *)
(* giveClue by a sender who is not the bound codeMaster, a claimReward by  *)
(* a sender who is neither player and a penalty by a sender who is not the *)
(* bound referee all fail.  Stated as claimed; makeGuess at turnCount = 1  *)
(* accepts any sender.                                                     *)
(***************************************************************************)
C8_Authorization ==
  \A sender \in Keys :
    /\ codeBreakerId # 0 /\ ~IsCodeBreaker(sender)
         => \A g \in CombinationInputs : makeGuessErr(sender, g) # OK
    /\ ~IsCodeMaster(sender)
         => \A c \in CombinationInputs, salt \in SaltInputs :
              giveClueErr(sender, c, salt) # OK
    /\ ~IsCodeMaster(sender) /\ ~IsCodeBreaker(sender)
         => claimRewardErr(sender) # OK
    /\ refereeId # PubKeyHash(sender)
         => \A pk \in Keys : /\ penalizeCodeBreakerErr(sender, pk) # OK
                             /\ penalizeCodeMasterErr(sender, pk) # OK

(***************************************************************************)
(* C9: turnCount is 0 until createGame and 1 after it, grows by exactly 1  *)
(* with every accepted makeGuess and giveClue, is never decreased, and is  *)
(* left alone by acceptGame, claimReward and the penalties.                *)
(***************************************************************************)
C9_TurnCountMonotonic ==
  /\ [](lastCall \in {"deploy", "initGame"} => turnCount = 0)
  /\ [][/\ Accepted("createGame") => turnCount = 0 /\ turnCount' = 1
        /\ Accepted("makeGuess") \/ Accepted("giveClue")
             => turnCount' = turnCount + 1
        /\ Accepted("acceptGame") \/ Accepted("claimReward")
             \/ Accepted("penalizeCodeBreaker") \/ Accepted("penalizeCodeMaster")
             => turnCount' = turnCount
        /\ turnCount' >= turnCount]_vars

\* Two rounds have been played on-chain.
C9_Witness == onChainOnly /\ lastCall = "giveClue" /\ turnCount = 5

(***************************************************************************)
(* C10: makeGuess is accepted only at an odd turnCount and giveClue only   *)
(* at an even non-zero one; in a game played by makeGuess and giveClue a   *)
(* guess is accepted only after as many clues as guesses, a clue only      *)
(* after one guess more than clues, and the clue stored is the clue of the *)
(* latest guess against the committed secret; a call on the wrong turn     *)
(* that passes the checks before the turn check fails with the 'Please     *)
(* wait for ...' message of its method.                                    *)
(***************************************************************************)
C10_TurnsAlternate ==
  /\ [](\A sender \in Keys, c \in CombinationInputs, salt \in SaltInputs :
          /\ makeGuessErr(sender, c) = OK => turnCount % 2 = 1
          /\ giveClueErr(sender, c, salt) = OK
               => turnCount % 2 = 0 /\ turnCount # 0
          /\ provedState /\ assertNotFinalizedErr = OK /\ isSolved = 0
               /\ turnCount % 2 = 0
               => makeGuessErr(sender, c) =
                    "Please wait for the codeMaster to give you a clue!"
          /\ provedState /\ assertNotFinalizedErr = OK /\ isSolved = 0
               /\ IsCodeMaster(sender) /\ turnCount <= 2 * maxAttempts
               /\ (turnCount % 2 = 1 \/ turnCount = 0)
               => giveClueErr(sender, c, salt) =
                    "Please wait for the codeBreaker to make a guess!")
  /\ [][/\ onChainOnly /\ Accepted("makeGuess")
             => turnCount = 2 * Len(guessLog) + 1
        /\ onChainOnly /\ Accepted("giveClue") =>
             /\ guessLog # << >>
             /\ turnCount = 2 * Len(guessLog)
             /\ serializedClue' =
                  serializeClue(getClueFromGuess(
                    separateCombinationDigits(guessLog[Len(guessLog)]),
                    separateCombinationDigits(committed[1])))]_vars

\* A second clue has answered a second guess, with a clue that is not all misses.
C10_Witness ==
  /\ onChainOnly
  /\ lastCall = "giveClue"
  /\ Len(guessLog) = 2
  /\ turnCount = 5
  /\ serializedClue # 0

(***************************************************************************)
(* Helpers of the properties that follow.                                  *)
(***************************************************************************)
ValidGuesses ==
  {g \in CombinationInputs :
     validateCombinationErr(separateCombinationDigits(g)) = OK}
AttemptLimitError ==
  "You have reached the number limit of attempts to solve the secret combination!"
FinalizedError == "The game has already been finalized!"
TurnRecord == << turnCountMaxAttemptsIsSolved, unseparatedGuess, serializedClue >>

(***************************************************************************)
(* C11: in a game played by makeGuess and giveClue the codeBreaker gets    *)
(* exactly maxAttempts guesses: never more than maxAttempts guesses are    *)
(* accepted; after maxAttempts - 1 answered guesses the next guess of the  *)
(* codeBreaker is accepted while the game is unsolved and not finalized;   *)
(* after maxAttempts accepted guesses every makeGuess fails, and with the  *)
(* attempt-limit error when the checks made before the limit check pass    *)
(* (not finalized, unsolved, the last clue given).                         *)
(***************************************************************************)
C11_ExactlyMaxAttemptsGuesses ==
  onChainOnly /\ provedState =>
    /\ Len(guessLog) <= maxAttempts
    /\ Len(guessLog) = maxAttempts - 1 /\ turnCount % 2 = 1
         /\ assertNotFinalizedErr = OK /\ isSolved = 0 /\ codeBreakerId # 0
         => \A g \in ValidGuesses : makeGuessErr(KeyOf(codeBreakerId), g) = OK
    /\ Len(guessLog) = maxAttempts
         => \A sender \in Keys, g \in CombinationInputs :
              /\ makeGuessErr(sender, g) # OK
              /\ assertNotFinalizedErr = OK /\ isSolved = 0 /\ turnCount % 2 = 1
                   => makeGuessErr(sender, g) = AttemptLimitError

\* All maxAttempts guesses are made and answered, the game unsolved and open.
C11_Witness ==
  /\ onChainOnly /\ provedState
  /\ Len(guessLog) = maxAttempts
  /\ turnCount = 2 * maxAttempts + 1
  /\ isSolved = 0
  /\ assertNotFinalizedErr = OK

(***************************************************************************)
(* C12: once the stored turnCount is at least 2 * maxAttempts no makeGuess,*)
(* giveClue or submitGameProof is accepted: turnCount, lastGuess, clue and *)
(* isSolved stay as they are.  Stated as claimed; giveClue is accepted at  *)
(* turnCount = 2 * maxAttempts and submitGameProof has no attempt check.   *)
(***************************************************************************)
C12_NothingAcceptedAfterExhaustion ==
  [][provedState /\ turnCount >= 2 * maxAttempts
       => TurnRecord' = TurnRecord]_vars

(***************************************************************************)
(* C13: once isSolved = 1 every makeGuess, giveClue and submitGameProof    *)
(* fails, with the method's 'already solved' error when the checks made    *)
(* before the solved check pass, and isSolved, turnCount, lastGuess and    *)
(* clue never change again.                                                *)
(***************************************************************************)
C13_SolvedIsTerminal ==
  /\ [](isSolved = 1 =>
          /\ \A sender \in Keys, c \in CombinationInputs, salt \in SaltInputs :
               /\ makeGuessErr(sender, c) # OK
               /\ giveClueErr(sender, c, salt) # OK
               /\ assertNotFinalizedErr = OK
                    => makeGuessErr(sender, c) =
                         "The game secret has already been solved!"
               /\ assertNotFinalizedErr = OK /\ IsCodeMaster(sender)
                    /\ turnCount <= 2 * maxAttempts
                    => giveClueErr(sender, c, salt) =
                         "The codeBreaker has already solved the secret combination!"
          /\ \A proof \in ProofInputs \cup {NoProof} :
               /\ submitGameProofErr(proof) # OK
               /\ assertNotFinalizedErr = OK
                    => submitGameProofErr(proof) =
                         "The game secret has already been solved!")
  /\ [][isSolved = 1 => TurnRecord' = TurnRecord]_vars

\* The game was solved by a clue given on-chain and the deadline has not passed.
C13_Witness ==
  /\ isSolved = 1
  /\ lastCall = "giveClue"
  /\ assertNotFinalizedErr = OK
  /\ turnCount < 2 * maxAttempts

(***************************************************************************)
(* C14: in every state of an accepted game whose slot has reached          *)
(* finalizeSlot, makeGuess, giveClue and submitGameProof fail with 'The    *)
(* game has already been finalized!', and turnCount, lastGuess, clue and   *)
(* isSolved never change from then on.                                     *)
(***************************************************************************)
C14_FrozenAfterDeadline ==
  /\ [](codeBreakerId # 0 /\ globalSlot >= finalizeSlot =>
          /\ \A sender \in Keys, c \in CombinationInputs, salt \in SaltInputs :
               /\ makeGuessErr(sender, c) = FinalizedError
               /\ giveClueErr(sender, c, salt) = FinalizedError
          /\ \A proof \in ProofInputs \cup {NoProof} :
               submitGameProofErr(proof) = FinalizedError)
  /\ [][codeBreakerId # 0 /\ globalSlot >= finalizeSlot
          => TurnRecord' = TurnRecord]_vars

\* The deadline has passed while the codeMaster owed a clue.
C14_Witness ==
  /\ codeBreakerId # 0
  /\ globalSlot >= finalizeSlot
  /\ finalizeSlot # 0
  /\ turnCount = 2
  /\ isSolved = 0

\* The checks submitGameProof makes before it reads the proof all pass.
ProofIsRead == submitGameProofErr(NoProof) = "ProofVerificationError"

(***************************************************************************)
(* C15: a proof whose codeBreakerId, codeMasterId or solutionHash differs  *)
(* from the stored value is rejected by submitGameProof, with the '... is  *)
(* not same as the one stored on-chain!' error of the first field that     *)
(* differs once the proof is read, and an accepted submitGameProof leaves  *)
(* the stored ids and solution hash as they were.                          *)
(***************************************************************************)
C15_OnlyProofsOfThisGame ==
  /\ [](\A proof \in ProofInputs :
          /\ \/ proof.codeBreakerId # codeBreakerId
             \/ proof.codeMasterId # codeMasterId
             \/ proof.solutionHash # solutionHash
             => submitGameProofErr(proof) # OK
          /\ ProofIsRead =>
               /\ proof.codeBreakerId # codeBreakerId
                    => submitGameProofErr(proof) =
                         "The code breaker ID is not same as the one stored on-chain!"
               /\ proof.codeBreakerId = codeBreakerId
                    /\ proof.codeMasterId # codeMasterId
                    => submitGameProofErr(proof) =
                         "The code master ID is not same as the one stored on-chain!"
               /\ proof.codeBreakerId = codeBreakerId
                    /\ proof.codeMasterId = codeMasterId
                    /\ proof.solutionHash # solutionHash
                    => submitGameProofErr(proof) =
                         "The solution hash is not same as the one stored on-chain!")
  /\ [][Accepted("submitGameProof")
          => UNCHANGED << codeMasterId, codeBreakerId, solutionHash >>]_vars

\* A proof of the same players over another secret is offered to an open game.
C15_Witness ==
  /\ ProofIsRead
  /\ \E proof \in ProofInputs :
       /\ proof.turnCount > turnCount
       /\ submitGameProofErr(proof) =
            "The solution hash is not same as the one stored on-chain!"

\* The proofs of a given turnCount.
ProofInputsAt ==
  [t \in 0..(2 * MaxRounds + 2) |-> {p \in ProofInputs : p.turnCount = t}]

(***************************************************************************)
(* C16: an accepted submitGameProof stores the turnCount, lastGuess and    *)
(* clue of a proof it accepts, keeps maxAttempts, and stores isSolved = 1  *)
(* exactly when that proof's clue is four hits and its turnCount is below  *)
(* 2 * maxAttempts, and 0 otherwise.                                       *)
(***************************************************************************)
C16_ProofIsAdopted ==
  [][Accepted("submitGameProof") =>
       \E proof \in ProofInputsAt[turnCount'] :
         /\ submitGameProofErr(proof) = OK
         /\ turnCount' = proof.turnCount
         /\ unseparatedGuess' = proof.lastGuess
         /\ serializedClue' = proof.serializedClue
         /\ maxAttempts' = maxAttempts
         /\ isSolved' =
              IF checkIfSolved(deserializeClue(proof.serializedClue))
                   /\ proof.turnCount < 2 * maxAttempts
                THEN 1 ELSE 0]_vars

\* A proof solved by its last allowed guess was adopted as unsolved.
C16_Witness ==
  /\ lastCall = "submitGameProof"
  /\ checkIfSolved(deserializeClue(serializedClue))
  /\ turnCount >= 2 * maxAttempts
  /\ isSolved = 0

(***************************************************************************)
(* C17: a submitGameProof whose proof.turnCount is not above the stored    *)
(* turnCount fails (with 'Cannot submit a proof for a previous turn!' when *)
(* the proof is read and is of this game), every accepted submitGameProof  *)
(* raises the stored turnCount, and no step lowers it: an accepted proof   *)
(* is never accepted again and no older proof replaces a newer state.      *)
(***************************************************************************)
C17_NoReplayOfProofs ==
  /\ [](\A proof \in ProofInputs :
          proof.turnCount <= turnCount =>
            /\ submitGameProofErr(proof) # OK
            /\ ProofIsRead /\ proof.codeBreakerId = codeBreakerId
                 /\ proof.codeMasterId = codeMasterId
                 /\ proof.solutionHash = solutionHash
                 => submitGameProofErr(proof) =
                      "Cannot submit a proof for a previous turn!")
  /\ [][/\ turnCount' >= turnCount
        /\ Accepted("submitGameProof") => turnCount' > turnCount]_vars

\* The proof just adopted is offered again to the still open game.
C17_Witness ==
  /\ lastCall = "submitGameProof"
  /\ ProofIsRead
  /\ \E proof \in ProofInputs :
       /\ proof.turnCount = turnCount
       /\ proof.lastGuess = unseparatedGuess
       /\ proof.serializedClue = serializedClue
       /\ submitGameProofErr(proof) = "Cannot submit a proof for a previous turn!"

(***************************************************************************)
(* C18: giveClue is accepted only for the secret and salt committed at     *)
(* createGame (their hash is the stored solutionHash), and every accepted  *)
(* giveClue stores the clue of the stored lastGuess against the committed  *)
(* secret and isSolved = 1 exactly when that clue is four hits.            *)
(***************************************************************************)
C18_ClueOfTheCommittedSecret ==
  /\ [](\A sender \in Keys, c \in CombinationInputs, salt \in SaltInputs :
          giveClueErr(sender, c, salt) = OK
            => /\ HashSolution(separateCombinationDigits(c), salt) = solutionHash
               /\ << c, salt >> = committed)
  /\ [][Accepted("giveClue") =>
          LET clue == getClueFromGuess(
                        separateCombinationDigits(unseparatedGuess),
                        separateCombinationDigits(committed[1]))
          IN /\ serializedClue' = serializeClue(clue)
             /\ isSolved' = IF checkIfSolved(clue) THEN 1 ELSE 0]_vars

\* Guess 2134 against the secret 1234 was answered blow, blow, hit, hit.
C18_Witness ==
  /\ lastCall = "giveClue"
  /\ committed # << >>
  /\ committed[1] = 1234
  /\ unseparatedGuess = 2134
  /\ deserializeClue(serializedClue) = << 1, 1, 2, 2 >>
  /\ isSolved = 0

C20_PenaltyBeforeDeadline ==
  codeBreakerId # 0 /\ globalSlot < finalizeSlot /\ zkappBalance >= rewardAmount
    => \A sender \in Keys :
         refereeId = PubKeyHash(sender)
           => /\ penalizeCodeBreakerErr(sender, KeyOf(codeMasterId)) = OK
              /\ penalizeCodeMasterErr(sender, KeyOf(codeBreakerId)) = OK

\* A penalty has drained a positive pool before the deadline.
C20_Witness ==
  /\ lastCall = "penalizeCodeBreaker"
  /\ codeBreakerId # 0
  /\ globalSlot < finalizeSlot
  /\ rewardAmount > 0
  /\ zkappBalance = 0

NotInitializedError == "The game has not been initialized yet!"

(***************************************************************************)
(* C21: initGame succeeds only on an uninitialized contract and only with  *)
(* 5 <= maxAttempts <= 15 (below 5 it fails with the minimum-attempts      *)
(* error, above 15 with the maximum-attempts error, on an initialized      *)
(* contract always), so at most once; after it succeeds turnCount = 0,     *)
(* isSolved = 0, maxAttempts and refereeId are stored and every other      *)
(* field is 0.                                                             *)
(***************************************************************************)
C21_InitGameOnce ==
  /\ [](\A m \in MaxAttemptsInputs :
          /\ initGameErr(m) = OK => ~provedState /\ 5 <= m /\ m <= 15
          /\ provedState => initGameErr(m) = "The game has already been initialized!"
          /\ ~provedState /\ m < 5
               => initGameErr(m) = "The minimum number of attempts allowed is 5!"
          /\ ~provedState /\ m > 15
               => initGameErr(m) = "The maximum number of attempts allowed is 15!")
  /\ [][/\ provedState => provedState' /\ ~Accepted("initGame")
        /\ Accepted("initGame") =>
             /\ ~provedState /\ provedState'
             /\ turnCount' = 0 /\ isSolved' = 0
             /\ maxAttempts' \in {m \in MaxAttemptsInputs : 5 <= m /\ m <= 15}
             /\ refereeId' \in {PubKeyHash(r) : r \in RefereeKeys}
             /\ codeMasterId' = 0 /\ codeBreakerId' = 0 /\ solutionHash' = 0
             /\ unseparatedGuess' = 0 /\ serializedClue' = 0
             /\ rewardFinalizeSlot' = 0]_vars

\* The contract has just been initialized with 5 attempts.
C21_Witness ==
  /\ lastCall = "initGame"
  /\ provedState
  /\ maxAttempts = 5
  /\ refereeId = PubKeyHash("referee")

(***************************************************************************)
(* C22: createGame succeeds only on an initialized contract with           *)
(* turnCount = 0 and fails with 'A mastermind game is already created!'    *)
(* once a game is created; acceptGame succeeds only while turnCount = 1    *)
(* and codeBreakerId is unset, fails with 'The game has not been created   *)
(* yet!' before createGame and with 'The game has already been accepted    *)
(* by the codeBreaker!' after an acceptGame; each succeeds at most once.   *)
(***************************************************************************)
C22_LifecycleOrder ==
  /\ [](/\ \A sender \in Keys, c \in CombinationInputs, salt \in SaltInputs,
             r \in RewardInputs :
             /\ createGameErr(sender, c, salt, r) = OK
                  => provedState /\ turnCount = 0
             /\ provedState /\ turnCount # 0
                  => createGameErr(sender, c, salt, r) =
                       "A mastermind game is already created!"
        /\ \A sender \in Keys :
             /\ acceptGameErr(sender) = OK
                  => provedState /\ turnCount = 1 /\ codeBreakerId = 0
             /\ provedState /\ turnCount = 0
                  => acceptGameErr(sender) = "The game has not been created yet!"
             /\ codeBreakerId # 0
                  => acceptGameErr(sender) =
                       "The game has already been accepted by the codeBreaker!")
  /\ [][/\ turnCount # 0 => turnCount' # 0 /\ ~Accepted("createGame")
        /\ codeBreakerId # 0 => codeBreakerId' # 0 /\ ~Accepted("acceptGame")
        /\ Accepted("acceptGame") => turnCount = 1]_vars

\* A created game has just been accepted.
C22_Witness ==
  /\ lastCall = "acceptGame"
  /\ turnCount = 1
  /\ codeBreakerId # 0
  /\ codeMasterId # 0

(***************************************************************************)
(* C23: on an uninitialized contract createGame, acceptGame,               *)
(* submitGameProof, makeGuess, giveClue and both penalties fail with 'The  *)
(* game has not been initialized yet!', claimReward fails too, and no step *)
(* but initGame changes the contract's state or any balance.               *)
(***************************************************************************)
C23_NothingBeforeInitGame ==
  /\ [](~provedState =>
          /\ \A sender \in Keys, c \in CombinationInputs, salt \in SaltInputs :
               /\ \A r \in RewardInputs :
                    createGameErr(sender, c, salt, r) = NotInitializedError
               /\ acceptGameErr(sender) = NotInitializedError
               /\ makeGuessErr(sender, c) = NotInitializedError
               /\ giveClueErr(sender, c, salt) = NotInitializedError
               /\ claimRewardErr(sender) # OK
               /\ \A pk \in Keys :
                    /\ penalizeCodeBreakerErr(sender, pk) = NotInitializedError
                    /\ penalizeCodeMasterErr(sender, pk) = NotInitializedError
          /\ \A proof \in ProofInputs \cup {NoProof} :
               submitGameProofErr(proof) = NotInitializedError)
  /\ [][~provedState /\ ~Accepted("initGame")
          => UNCHANGED << zkappState, ledger >>]_vars

\* Time has passed on a contract that is still uninitialized.
C23_Witness ==
  /\ ~provedState
  /\ globalSlot > 0
  /\ lastCall = "deploy"

(***************************************************************************)
(* C24: after createGame no step changes solutionHash or codeMasterId, and *)
(* after initGame no step changes maxAttempts or refereeId.                *)
(***************************************************************************)
C24_CommitmentsImmutable ==
  [][/\ turnCount # 0
          => solutionHash' = solutionHash /\ codeMasterId' = codeMasterId
     /\ provedState
          => maxAttempts' = maxAttempts /\ refereeId' = refereeId]_vars

\* A proof was adopted and the commitments are those of createGame.
C24_Witness ==
  /\ lastCall = "submitGameProof"
  /\ turnCount > 2
  /\ committed # << >>
  /\ solutionHash =
       HashSolution(separateCombinationDigits(committed[1]), committed[2])
  /\ codeMasterId # 0
  /\ maxAttempts = 5

(***************************************************************************)
(* C25: createGame stores the stake with finalizeSlot = 0; an accepted     *)
(* acceptGame stores twice the stake and finalizeSlot = current slot + 10, *)
(* takes the stake from its caller, sets codeBreakerId to the caller's     *)
(* hash and leaves turnCount alone; after it no step changes the stored    *)
(* reward or finalizeSlot.                                                 *)
(***************************************************************************)
C25_AcceptFixesStakeAndDeadline ==
  [][/\ Accepted("createGame") =>
          /\ finalizeSlot' = 0
          /\ rewardAmount' \in RewardInputs
          /\ zkappBalance' = zkappBalance + rewardAmount'
     /\ Accepted("acceptGame") =>
          /\ rewardAmount' = 2 * rewardAmount
          /\ finalizeSlot' = globalSlot + 10
          /\ turnCount' = turnCount
          /\ \E sender \in Keys :
               /\ codeBreakerId' = PubKeyHash(sender)
               /\ balance' = [balance EXCEPT ![sender] = @ - rewardAmount]
     /\ codeBreakerId # 0 => rewardFinalizeSlot' = rewardFinalizeSlot]_vars

\* A game accepted after the first slot stride is being played.
C25_Witness ==
  /\ codeBreakerId # 0
  /\ finalizeSlot = SlotStride + 10
  /\ rewardAmount = 2 * MaxReward
  /\ turnCount > 1

\* An accepted game past its deadline whose pool has not been paid out.
Settleable == codeBreakerId # 0 /\ globalSlot >= finalizeSlot /\ payouts = 0
\* The id the winner test of claimReward asks for.
WinnerId == IF isSolved = 1 THEN codeBreakerId ELSE codeMasterId

(***************************************************************************)
(* C26: in every state of an accepted game whose slot has reached          *)
(* finalizeSlot and whose pool has not been paid out, the zkApp holds the  *)
(* stored pool, the winner (the codeBreaker if isSolved = 1, the           *)
(* codeMaster otherwise) is the one identity whose claimReward succeeds,   *)
(* an accepted claim moves the whole pool to it, and, the winner's claim   *)
(* not being postponed forever, the pool eventually is 0.                  *)
(***************************************************************************)
C26_AcceptedGameCanBeSettled ==
  /\ [](Settleable =>
          /\ zkappBalance = rewardAmount
          /\ claimRewardErr(KeyOf(WinnerId)) = OK
          /\ \A sender \in Keys :
               claimRewardErr(sender) = OK => PubKeyHash(sender) = WinnerId)
  /\ [][Settleable /\ Accepted("claimReward") =>
          /\ zkappBalance' = 0
          /\ balance' = [balance EXCEPT ![KeyOf(WinnerId)] = @ + rewardAmount]]_vars
  /\ (Settleable ~> zkappBalance = 0)

\* The codeMaster of an unsolved game has claimed both stakes after the deadline.
C26_Witness ==
  /\ lastCall = "claimReward"
  /\ codeBreakerId # 0
  /\ codeBreakerId # codeMasterId
  /\ globalSlot >= finalizeSlot
  /\ isSolved = 0
  /\ rewardAmount > 0
  /\ zkappBalance = 0
  /\ balance[KeyOf(codeMasterId)] = InitialBalance + rewardAmount \div 2

(***************************************************************************)
(* C27: in every state where codeMasterId and codeBreakerId are both set   *)
(* they differ, so no sender passes both the codeMaster and the            *)
(* codeBreaker comparison of claimReward.                                  *)
(***************************************************************************)
C27_RolesMutuallyExclusive ==
  /\ codeMasterId # 0 /\ codeBreakerId # 0 => codeMasterId # codeBreakerId
  /\ \A sender \in Keys : ~(IsCodeMaster(sender) /\ IsCodeBreaker(sender))

(***************************************************************************)
(* C28: in every state between createGame and acceptGame (turnCount = 1,   *)
(* codeBreakerId = 0) finalizeSlot is 0 and makeGuess, giveClue and        *)
(* submitGameProof fail for every sender and argument; every accepted      *)
(* guess, clue or proof starts from a state with a codeBreaker and a       *)
(* deadline set.                                                           *)
(***************************************************************************)
C28_NoPlayBeforeAcceptance ==
  /\ [](turnCount = 1 /\ codeBreakerId = 0 =>
          /\ finalizeSlot = 0
          /\ \A sender \in Keys, g \in CombinationInputs :
               makeGuessErr(sender, g) # OK
          /\ \A sender \in Keys, c \in CombinationInputs, salt \in SaltInputs :
               giveClueErr(sender, c, salt) # OK
          /\ \A proof \in ProofInputs : submitGameProofErr(proof) # OK)
  /\ [][Accepted("makeGuess") \/ Accepted("giveClue")
          \/ Accepted("submitGameProof") =>
          /\ codeBreakerId # 0
          /\ finalizeSlot >= GAME_DURATION
          /\ rewardAmount % 2 = 0]_vars

\* A created game waits for its codeBreaker while the clock has advanced.
C28_Witness ==
  /\ lastCall = "createGame"
  /\ turnCount = 1
  /\ codeBreakerId = 0
  /\ rewardAmount > 0
  /\ globalSlot > 0

(***************************************************************************)
(* C29: in a state where isSolved = 1 every step that raises the balance   *)
(* of an account raises the balance of the codeBreaker.                    *)
(***************************************************************************)
C29_SolvedGamePaysTheCodeBreaker ==
  [][isSolved = 1 =>
       \A k \in Keys :
         balance'[k] > balance[k] => PubKeyHash(k) = codeBreakerId]_vars

(***************************************************************************)
(* C30: whenever submitGameProof is accepted, the same proof sent by any   *)
(* other sender from the same state is accepted too and gives the same     *)
(* next state (the proofs ranged over are those of the stored identities   *)
(* and of the adopted turn count, the only ones that can give the step).   *)
(***************************************************************************)
C30_SubmitGameProofIgnoresSender ==
  [][Accepted("submitGameProof") =>
       \A proof \in ProofInputsAt[turnCount']
                    \cap ProofInputsOf[codeMasterId, codeBreakerId, solutionHash] :
         (\E s1 \in Keys : submitGameProof(s1, proof))
           => \A s2 \in Keys : submitGameProof(s2, proof)]_vars

\* A proof of a game in progress has been adopted by the contract.
C30_Witness ==
  /\ lastCall = "submitGameProof"
  /\ ~onChainOnly
  /\ turnCount > 2
  /\ isSolved = 0

====
